---- MODULE Spec2Model ----
(***************************************************************************)
(* Model of the batching / debounce engine of FileConverter                *)
(* (src/file_converter.py): add_file, the threading.Timer it arms, and     *)
(* process_batch with its per-item calls of convert_file.                  *)
(*                                                                         *)
(* Time is discrete.  One tick is half of batch_wait_time.  Steps of the   *)
(* program that do not wait for anything (taking a free lock, the body of  *)
(* add_file, a timer whose interval is over) happen before the clock moves *)
(* on; a conversion (an external tool) and a thread blocked on             *)
(* processing_lock let any amount of time pass.  Clocks are kept relative  *)
(* and saturate, so the state space is finite without a bound on time.     *)
(***************************************************************************)
EXTENDS Bags, FiniteSets, Integers, Sequences, TLC

----------------------------------------------------------------------------
(* Bounds of the model *)

\* number of add_file calls the caller makes in one run
MaxCalls == 3

\* batch_wait_time in ticks (FileConverter.__init__, default 0.1 s)
BatchWaitTime == 2

----------------------------------------------------------------------------
(* Paths, formats and the static tables of FileConverter.__init__ *)

None == "<None>"

\* a bug: strings are compared as they are given
AsGiven(s) == s

\* str.lower() on the strings the model uses
Lower(s) ==
    CASE s = ".PNG" -> ".png"
      [] s = ".Mp3" -> ".mp3"
      [] s = ".MOV" -> ".mov"
      [] s = "JPG"  -> "jpg"
      [] s = "Jpg"  -> "jpg"
      [] s = "PNG"  -> "png"
      [] s = "GIF"  -> "gif"
      [] s = "MP3"  -> "mp3"
      [] OTHER      -> s

\* suffix[1:], the extension without its leading dot
DropDot(s) ==
    CASE s = ".jpg"  -> "jpg"  [] s = ".jpeg" -> "jpeg" [] s = ".png"  -> "png"
      [] s = ".bmp"  -> "bmp"  [] s = ".gif"  -> "gif"  [] s = ".webp" -> "webp"
      [] s = ".tiff" -> "tiff" [] s = ".ico"  -> "ico"
      [] s = ".mp3"  -> "mp3"  [] s = ".wav"  -> "wav"  [] s = ".ogg"  -> "ogg"
      [] s = ".m4a"  -> "m4a"  [] s = ".flac" -> "flac" [] s = ".aac"  -> "aac"
      [] s = ".mp4"  -> "mp4"  [] s = ".avi"  -> "avi"  [] s = ".mkv"  -> "mkv"
      [] s = ".mov"  -> "mov"  [] s = ".wmv"  -> "wmv"  [] s = ".flv"  -> "flv"
      [] s = ".webm" -> "webm" [] s = ".txt"  -> "txt"
      [] s = ".PNG"  -> "PNG"  [] s = ".Mp3"  -> "Mp3"  [] s = ".MOV"  -> "MOV"
      [] OTHER       -> s

image_formats == {".jpg", ".jpeg", ".png", ".bmp", ".gif", ".webp", ".tiff", ".ico"}
audio_formats == {".mp3", ".wav", ".ogg", ".m4a", ".flac", ".aac"}
video_formats == {".mp4", ".avi", ".mkv", ".mov", ".wmv", ".flv", ".webm"}

\* the keys of the three output mappings
image_format_mapping == {"jpg", "jpeg", "png", "bmp", "gif", "webp", "tiff", "ico"}
audio_format_mapping == {"mp3", "wav", "ogg", "m4a", "flac", "aac"}
video_format_mapping == {"mp4", "avi", "mkv", "mov", "wmv", "flv", "webm", "gif"}

supported_formats == image_formats \cup audio_formats \cup video_formats
\* a bug: another default for images
WrongDefault == "jpg"

default_format == "png"
default_audio_format == "mp3"
default_video_format == "mp4"

\* the paths and the (path, output_format) pairs add_file is called with
PathPNG == [stem |-> "a", suffix |-> ".PNG"]
PathMp3 == [stem |-> "b", suffix |-> ".mp3"]
PathTxt == [stem |-> "c", suffix |-> ".txt"]

Requests ==
    { <<PathPNG, None>>, <<PathPNG, "jpg">>, <<PathMp3, "xyz">>, <<PathTxt, None>> }

\* a bug: the extension is not tested
AcceptAll(file_path) == TRUE

\* the test of add_file on the extension
Recognized(file_path) == Lower(file_path.suffix) \in supported_formats

----------------------------------------------------------------------------
(* convert_file: how a call for (file_path, output_format) can end *)

\* the image library or the transcoder may succeed or fail
ToolOutcomes == {"returned", "raised"}

\* a bug: a source that already has the wanted format makes convert_file raise
SkipRaises(file_path, output_format) ==
    LET suffix == Lower(file_path.suffix)
        input_format == DropDot(suffix)
        no_format == output_format \in {None, ""}
        chosen == IF ~no_format THEN output_format
                  ELSE IF suffix \in image_formats THEN default_format
                  ELSE IF suffix \in audio_formats THEN default_audio_format
                  ELSE IF suffix \in video_formats THEN default_video_format
                  ELSE None
    IN  IF chosen = None \/ input_format = Lower(chosen) THEN {"raised"}
        ELSE IF suffix \in image_formats
             THEN IF Lower(chosen) \notin image_format_mapping THEN {"raised"} ELSE ToolOutcomes
        ELSE IF suffix \in audio_formats
             THEN IF Lower(chosen) \notin audio_format_mapping THEN {"raised"} ELSE ToolOutcomes
        ELSE IF suffix \in video_formats
             THEN IF Lower(chosen) \notin video_format_mapping THEN {"raised"} ELSE ToolOutcomes
        ELSE {"raised"}

ConvertFile(file_path, output_format) ==
    LET suffix == Lower(file_path.suffix)
        input_format == DropDot(suffix)
        no_format == output_format \in {None, ""}
        chosen == IF ~no_format THEN output_format
                  ELSE IF suffix \in image_formats THEN default_format
                  ELSE IF suffix \in audio_formats THEN default_audio_format
                  ELSE IF suffix \in video_formats THEN default_video_format
                  ELSE None
    IN  IF chosen = None THEN {"raised"}           \* None.lower()
        ELSE LET out == Lower(chosen) IN
             IF input_format = out THEN {"returned"}
             ELSE IF suffix \in image_formats
                  THEN IF out \notin image_format_mapping THEN {"raised"} ELSE ToolOutcomes
             ELSE IF suffix \in audio_formats
                  THEN IF out \notin audio_format_mapping THEN {"raised"} ELSE ToolOutcomes
             ELSE IF suffix \in video_formats
                  THEN IF out \notin video_format_mapping THEN {"raised"} ELSE ToolOutcomes
             ELSE {"raised"}

----------------------------------------------------------------------------
(* State *)

VARIABLES
    pending_files,     \* self.pending_files, as a bag of (path, format) pairs
    processing_lock,   \* holder of self.processing_lock: Free, CallerThread or a timer
    batch_timer,       \* self.batch_timer: 0 for None, else the index of a timer
    timers,            \* every threading.Timer created so far, with its thread's locals
    caller,            \* the thread that calls add_file
    nCalls,            \* add_file calls made so far
    sinceIssue,        \* ticks since the last add_file call for a recognized path was made
    sinceAccept,       \* ticks since add_file last inserted a request
    close,             \* every recognized call so far came less than BatchWaitTime after the previous one
    spaced             \* every recognized call so far came more than BatchWaitTime after the previous one

VARIABLES
    conv,              \* one call of convert_file: its arguments, position, locals and effects
    guard,             \* the FileConverter instances that share converter.lock
    reg                \* the RegistryManager: its map, its file and the registry keys

\* the state of the batching engine
schedVars == << pending_files, processing_lock, batch_timer, timers, caller, nCalls,
                sinceIssue, sinceAccept, close, spaced >>

vars == << pending_files, processing_lock, batch_timer, timers, caller, nCalls,
           sinceIssue, sinceAccept, close, spaced, conv, guard, reg >>

\* no call of convert_file is being followed
ConvIdle == [pc |-> "idle"]

\* no instance is being followed
GuardIdle == [pc |-> "idle"]

\* no RegistryManager is being followed
RegIdle == [pc |-> "idle"]

Free == 0
CallerThread == -1

TimerIds == DOMAIN timers

\* a bug: a request is dropped when a pending one for the same path
\* resolves to the same format
AddByTarget(B, r) ==
    LET fmt(q) == IF q[2] \in {None, ""} THEN default_format ELSE Lower(q[2])
    IN  IF \E q \in BagToSet(B) : q[1] = r[1] /\ fmt(q) = fmt(r)
        THEN B
        ELSE B (+) SetToBag({r})

\* a bug: the pending requests are kept in a list
ListAppend(B, r) == B (+) SetToBag({r})

\* set.add
SetAdd(B, r) == IF BagIn(r, B) THEN B ELSE B (+) SetToBag({r})

\* a bug: the new timer is created but never started
NotStarted(r) ==
    [ state            |-> "cancelled",
      remaining        |-> BatchWaitTime,
      req              |-> r,
      files_to_process |-> EmptyBag,
      todo             |-> EmptyBag,
      success_count    |-> 0,
      fail_count       |-> 0,
      results          |-> EmptyBag,
      quiet            |-> 0 ]

\* a new threading.Timer(self.batch_wait_time, self.process_batch), started
NewTimer(r) ==
    [ state            |-> "armed",
      remaining        |-> BatchWaitTime,
      req              |-> r,
      files_to_process |-> EmptyBag,
      todo             |-> EmptyBag,
      success_count    |-> 0,
      fail_count       |-> 0,
      results          |-> EmptyBag,
      quiet            |-> 0 ]

\* a bug: the previous timer is left running
NoCancel(ts, t) == ts

\* Timer.cancel(): stops a timer that is still waiting; a timer whose
\* interval is over has already decided to call its function
Cancel(ts, t) ==
    IF t # 0 /\ ts[t].state = "armed"
    THEN [ts EXCEPT ![t].state = "cancelled"]
    ELSE ts

Init ==
    /\ pending_files = EmptyBag
    /\ processing_lock = Free
    /\ batch_timer = 0
    /\ timers = << >>
    /\ caller = [pc |-> "idle", req |-> <<PathTxt, None>>]
    /\ nCalls = 0
    /\ sinceIssue = 0
    /\ sinceAccept = 0
    /\ close = TRUE
    /\ spaced = TRUE
    /\ conv = ConvIdle
    /\ guard = GuardIdle
    /\ reg = RegIdle

----------------------------------------------------------------------------
(* add_file *)

Min(a, b) == IF a < b THEN a ELSE b

\* the caller reaches `with self.processing_lock` of add_file(r)
AddFileCall(r) ==
    /\ caller.pc = "idle"
    /\ nCalls < MaxCalls
    /\ caller' = [pc |-> "waiting", req |-> r]
    /\ nCalls' = nCalls + 1
    /\ IF Recognized(r[1])
       THEN /\ close' = (close /\ (Len(timers) = 0 \/ sinceIssue < BatchWaitTime))
            /\ spaced' = (spaced /\ (Len(timers) = 0 \/ sinceIssue > BatchWaitTime))
            /\ sinceIssue' = 0
       ELSE UNCHANGED << close, spaced, sinceIssue >>
    /\ UNCHANGED << pending_files, processing_lock, batch_timer, timers, sinceAccept >>
    /\ UNCHANGED << conv, guard, reg >>

\* the caller gets processing_lock
AddFileEnter ==
    /\ caller.pc = "waiting"
    /\ processing_lock = Free
    /\ processing_lock' = CallerThread
    /\ caller' = [caller EXCEPT !.pc = "locked"]
    /\ UNCHANGED << pending_files, batch_timer, timers, nCalls,
                    sinceIssue, sinceAccept, close, spaced >>
    /\ UNCHANGED << conv, guard, reg >>

\* a bug: a timer is armed only when there has never been one
ArmOnce(ts, t, r) == IF t = 0 THEN Append(ts, NewTimer(r)) ELSE ts

\* cancel the previous timer, create and start a new one
Restarted(ts, t, r) == Append(Cancel(ts, t), NewTimer(r))

\* the body of add_file under the lock, and the release of the lock
AddFileBody ==
    /\ caller.pc = "locked"
    /\ IF Recognized(caller.req[1])
       THEN /\ pending_files' = SetAdd(pending_files, caller.req)
            /\ timers' = Restarted(timers, batch_timer, caller.req)
            /\ batch_timer' = Len(timers')
            /\ sinceAccept' = 0
       ELSE UNCHANGED << pending_files, timers, batch_timer, sinceAccept >>
    /\ processing_lock' = Free
    /\ caller' = [caller EXCEPT !.pc = "idle"]
    /\ UNCHANGED << nCalls, sinceIssue, close, spaced >>
    /\ UNCHANGED << conv, guard, reg >>

----------------------------------------------------------------------------
(* the timer thread and process_batch *)

\* the interval of timer i is over and it has not been cancelled:
\* its thread calls process_batch
TimerElapse(i) ==
    /\ timers[i].state = "armed"
    /\ timers[i].remaining = 0
    /\ timers' = [timers EXCEPT ![i].state = "elapsed"]
    /\ UNCHANGED << pending_files, processing_lock, batch_timer, caller, nCalls,
                    sinceIssue, sinceAccept, close, spaced >>
    /\ UNCHANGED << conv, guard, reg >>

\* a bug: the lock is given up before the conversions
ReleasedBeforePass(i) == Free

\* the holder of processing_lock while the items are converted:
\* the for loop is inside the with block
PassLock(i) == i

\* a bug: the pending set is not emptied
KeepPending(B) == B

\* self.pending_files.clear()
Clear(B) == EmptyBag

\* a bug: a callback that finds nothing pending converts the request of
\* the add_file call that armed its timer
ConvertsOwn(t) ==
    [t EXCEPT !.state = "done",
              !.results = SetToBag({<< t.req, "returned" >>}),
              !.success_count = 1]

\* `if not self.pending_files: return`: the timer thread ends
ReturnedEarly(t) == [t EXCEPT !.state = "done"]

\* process_batch gets the lock; returns if nothing is pending,
\* else captures the pending set and empties it
BatchEnter(i) ==
    /\ timers[i].state = "elapsed"
    /\ processing_lock = Free
    /\ IF pending_files = EmptyBag
       THEN /\ timers' = [timers EXCEPT ![i] = ReturnedEarly(@)]
            /\ UNCHANGED << pending_files, processing_lock >>
       ELSE /\ timers' = [timers EXCEPT ![i].state = "converting",
                                        ![i].files_to_process = pending_files,
                                        ![i].todo = pending_files,
                                        ![i].quiet = sinceAccept]
            /\ pending_files' = Clear(pending_files)
            /\ processing_lock' = PassLock(i)
    /\ UNCHANGED << batch_timer, caller, nCalls, sinceIssue, sinceAccept, close, spaced >>
    /\ UNCHANGED << conv, guard, reg >>

\* a bug: an exception of convert_file leaves the loop
AbortOnRaise(t, r, o) ==
    IF o = "raised"
    THEN [t EXCEPT !.todo = EmptyBag,
                   !.results = @ (+) SetToBag({<<r, o>>})]
    ELSE [t EXCEPT !.todo = @ (-) SetToBag({r}),
                   !.results = @ (+) SetToBag({<<r, o>>}),
                   !.success_count = @ + 1]

\* one round of the for loop: convert_file(r) ended with o
AfterConvert(t, r, o) ==
    [t EXCEPT !.todo = @ (-) SetToBag({r}),
              !.results = @ (+) SetToBag({<<r, o>>}),
              !.success_count = IF o = "returned" THEN @ + 1 ELSE @,
              !.fail_count = IF o = "raised" THEN @ + 1 ELSE @]

ConvertItem(i) ==
    /\ timers[i].state = "converting"
    /\ timers[i].todo # EmptyBag
    /\ \E r \in BagToSet(timers[i].todo) :
         \E o \in ConvertFile(r[1], r[2]) :
            timers' = [timers EXCEPT ![i] = AfterConvert(@, r, o)]
    /\ UNCHANGED << pending_files, processing_lock, batch_timer, caller, nCalls,
                    sinceIssue, sinceAccept, close, spaced >>
    /\ UNCHANGED << conv, guard, reg >>

\* the loop is over: the counts are logged and the with block is left
BatchExit(i) ==
    /\ timers[i].state = "converting"
    /\ timers[i].todo = EmptyBag
    /\ timers' = [timers EXCEPT ![i].state = "done"]
    /\ processing_lock' = IF processing_lock = i THEN Free ELSE processing_lock
    /\ UNCHANGED << pending_files, batch_timer, caller, nCalls,
                    sinceIssue, sinceAccept, close, spaced >>
    /\ UNCHANGED << conv, guard, reg >>

----------------------------------------------------------------------------
(* time *)

\* some thread can take a step that waits for nothing
Urgent ==
    \/ caller.pc = "locked"
    \/ caller.pc = "waiting" /\ processing_lock = Free
    \/ \E i \in TimerIds :
         \/ timers[i].state = "armed" /\ timers[i].remaining = 0
         \/ timers[i].state = "elapsed" /\ processing_lock = Free
         \/ timers[i].state = "converting" /\ timers[i].todo = EmptyBag

Tick ==
    /\ ~Urgent
    /\ timers' = [i \in TimerIds |->
                    IF timers[i].state = "armed"
                    THEN [timers[i] EXCEPT !.remaining = @ - 1]
                    ELSE timers[i]]
    /\ sinceIssue' = Min(sinceIssue + 1, BatchWaitTime + 1)
    /\ sinceAccept' = Min(sinceAccept + 1, BatchWaitTime)
    /\ UNCHANGED << pending_files, processing_lock, batch_timer, caller, nCalls,
                    close, spaced >>
    /\ UNCHANGED << conv, guard, reg >>

----------------------------------------------------------------------------

Next ==
    \/ \E r \in Requests : AddFileCall(r)
    \/ AddFileEnter
    \/ AddFileBody
    \/ \E i \in TimerIds : TimerElapse(i)
    \/ \E i \in TimerIds : BatchEnter(i)
    \/ \E i \in TimerIds : ConvertItem(i)
    \/ \E i \in TimerIds : BatchExit(i)
    \/ Tick

Spec == Init /\ [][Next]_vars

\* every thread that can run does run, every conversion ends, time goes on
FairSpec ==
    /\ Spec
    /\ WF_vars(AddFileEnter)
    /\ WF_vars(AddFileBody)
    /\ WF_vars(\E i \in TimerIds : TimerElapse(i))
    /\ WF_vars(\E i \in TimerIds : BatchEnter(i))
    /\ WF_vars(\E i \in TimerIds : ConvertItem(i))
    /\ WF_vars(\E i \in TimerIds : BatchExit(i))
    /\ WF_vars(Tick)

TypeOK ==
    /\ processing_lock \in {Free, CallerThread} \cup TimerIds
    /\ batch_timer \in {0} \cup TimerIds
    /\ caller.pc \in {"idle", "waiting", "locked"}
    /\ caller.req \in Requests
    /\ nCalls \in 0..MaxCalls
    /\ sinceIssue \in 0..(BatchWaitTime + 1)
    /\ sinceAccept \in 0..BatchWaitTime
    /\ \A i \in TimerIds :
         /\ timers[i].state \in {"armed", "cancelled", "elapsed", "converting", "done"}
         /\ timers[i].remaining \in 0..BatchWaitTime

----------------------------------------------------------------------------
(* Properties of the debounce *)

\* the timers whose process_batch captured at least one request
NonEmptyPasses == { i \in TimerIds : timers[i].files_to_process # EmptyBag }

\* the pairs add_file has inserted so far
Accepted == { timers[i].req : i \in TimerIds }

\* no call of add_file is under way and no timer thread is alive
Quiescent ==
    /\ caller.pc = "idle"
    /\ \A i \in TimerIds : timers[i].state \in {"cancelled", "done"}

\* C1: a processing pass that captures at least one request never begins
\* less than batch_wait_time after the most recent accepted add_file call.
DebounceQuietWindow ==
    \A i \in NonEmptyPasses : timers[i].quiet >= BatchWaitTime

\* C2: process_batch has released processing_lock before it converts an
\* item, so add_file is not kept waiting by the conversions of a pass.
LockReleasedBeforeConverting ==
    \A i \in TimerIds :
        (timers[i].state = "converting" /\ timers[i].todo # EmptyBag)
            => processing_lock # i

SpacedCallsSeparatePasses ==
    (spaced /\ Quiescent) => Cardinality(NonEmptyPasses) = Len(timers)

----------------------------------------------------------------------------
(* Properties of a processing pass *)

\* convert_file has been called for r in a pass that is under way
Dispatching(r) ==
    \E i \in TimerIds :
        /\ timers[i].state = "converting"
        /\ \E o \in ToolOutcomes : BagIn(<<r, o>>, timers[i].results)

\* C5: once the calls of add_file have stopped, every accepted request is
\* passed to convert_file, and pending_files becomes empty and stays empty.
PendingEventuallyProcessed ==
    /\ <>[](pending_files = EmptyBag)
    /\ \A r \in Requests : BagIn(r, pending_files) ~> Dispatching(r)

PendingEventuallyProcessedWitness ==
    /\ nCalls = MaxCalls
    /\ Quiescent
    /\ pending_files = EmptyBag
    /\ Cardinality(NonEmptyPasses) >= 2
    /\ \A i \in NonEmptyPasses : timers[i].results # EmptyBag

\* C6: at most one process_batch is converting items at any time.
OnePassAtATime ==
    Cardinality({ i \in TimerIds : timers[i].state = "converting" }) <= 1

OnePassAtATimeWitness ==
    \E i, j \in TimerIds :
        /\ timers[i].state = "converting"
        /\ timers[i].todo # EmptyBag
        /\ timers[j].state = "elapsed"

\* C7: the requests of a pass are fixed when the pass captures them: the
\* pass takes the whole pending set and leaves a fresh empty one, its batch
\* never changes afterwards, and a request accepted by add_file goes into
\* pending_files and into no batch.
BatchFixedAtCapture ==
    [][ \A i \in DOMAIN timers :
          /\ (timers[i].state = "elapsed" /\ timers'[i].state = "converting")
                => /\ timers'[i].files_to_process = pending_files
                   /\ pending_files' = EmptyBag
          /\ timers[i].state \in {"converting", "done"}
                => timers'[i].files_to_process = timers[i].files_to_process
          /\ Len(timers') > Len(timers)
                => /\ BagIn(caller.req, pending_files')
                   /\ timers'[i].files_to_process = timers[i].files_to_process
      ]_vars

BatchFixedAtCaptureWitness ==
    \E i \in TimerIds :
        /\ timers[i].state = "converting"
        /\ timers[i].todo # EmptyBag
        /\ caller.pc = "waiting"
        /\ Recognized(caller.req[1])
        /\ ~BagIn(caller.req, timers[i].files_to_process)

\* the number of convert_file calls a pass has made for r
CallsFor(t, r) == CopiesIn(<<r, "returned">>, t.results) + CopiesIn(<<r, "raised">>, t.results)

\* C8: pending_files never holds a (path, format) pair more than once, and a
\* pass calls convert_file exactly once for each pair it captured, also
\* when add_file was called twice with that pair before the pass.
Deduplicated ==
    /\ \A r \in BagToSet(pending_files) : CopiesIn(r, pending_files) = 1
    /\ \A i \in TimerIds :
         timers[i].state = "done"
            => \A r \in BagToSet(timers[i].files_to_process) : CallsFor(timers[i], r) = 1

DeduplicatedWitness ==
    \E i \in TimerIds :
        /\ NonEmptyPasses = {i}
        /\ timers[i].state = "done"
        /\ BagToSet(timers[i].files_to_process) = { <<PathPNG, None>>, <<PathPNG, "jpg">> }
        /\ \E j, k \in 1..i : j < k /\ timers[j].req = timers[k].req

\* the extension, lower-cased, is an image, audio or video extension
IsSupportedExt(file_path) ==
    Lower(file_path.suffix) \in image_formats \cup audio_formats \cup video_formats

\* C9: add_file for a path with an unrecognized extension leaves
\* pending_files and the timer as they are, so pending_files only ever
\* holds paths with recognized extensions.
UnrecognizedIgnored ==
    /\ [](\A r \in BagToSet(pending_files) : IsSupportedExt(r[1]))
    /\ [][ (caller.pc = "locked" /\ ~IsSupportedExt(caller.req[1]) /\ caller'.pc = "idle")
              => /\ pending_files' = pending_files
                 /\ timers' = timers
                 /\ batch_timer' = batch_timer ]_vars

UnrecognizedIgnoredWitness ==
    /\ nCalls >= 2
    /\ caller.pc = "idle"
    /\ ~IsSupportedExt(caller.req[1])
    /\ pending_files # EmptyBag
    /\ batch_timer # 0
    /\ timers[batch_timer].state = "armed"
    /\ timers[batch_timer].remaining < BatchWaitTime

\* the number of convert_file calls of a pass that ended with o
CountOutcome(B, o) ==
    LET S == { e \in BagToSet(B) : e[2] = o }
    IN  BagCardinality([e \in S |-> B[e]])

\* C10: a pass calls convert_file exactly once for every captured request,
\* whether or not calls raise; success_count + fail_count is the number of
\* captured requests and fail_count the number of calls that raised.
PerItemIsolation ==
    \A i \in TimerIds :
        LET t == timers[i] IN
        /\ t.success_count + t.fail_count
              = BagCardinality(t.files_to_process) - BagCardinality(t.todo)
        /\ t.fail_count = CountOutcome(t.results, "raised")
        /\ t.success_count = CountOutcome(t.results, "returned")
        /\ t.state = "done"
              => /\ t.todo = EmptyBag
                 /\ \A r \in BagToSet(t.files_to_process) :
                        CallsFor(t, r) = CopiesIn(r, t.files_to_process)

PerItemIsolationWitness ==
    \E i \in TimerIds :
        /\ timers[i].state = "done"
        /\ BagCardinality(timers[i].files_to_process) = 3
        /\ timers[i].success_count = 2
        /\ timers[i].fail_count = 1

\* the timers whose callback found pending_files empty
EmptyPasses ==
    { i \in TimerIds : timers[i].state = "done" /\ timers[i].files_to_process = EmptyBag }

\* C26: a timer callback that finds pending_files empty does nothing: it
\* leaves pending_files, batch_timer and the lock as they are, calls
\* convert_file for no request and counts neither a success nor a failure.
EmptyCallbackNoOp ==
    /\ [][ \A i \in DOMAIN timers :
             (timers[i].state = "elapsed" /\ timers'[i].state # "elapsed"
                                          /\ pending_files = EmptyBag)
                => /\ pending_files' = pending_files
                   /\ batch_timer' = batch_timer
                   /\ processing_lock' = processing_lock
                   /\ timers'[i].state = "done"
                   /\ \A j \in DOMAIN timers : j # i => timers'[j] = timers[j]
         ]_vars
    /\ [](\A i \in EmptyPasses :
             /\ timers[i].results = EmptyBag
             /\ timers[i].success_count = 0
             /\ timers[i].fail_count = 0)

\* the callback of a timer found nothing pending, because the callback of
\* the timer it replaced had run late and taken the requests of both
EmptyCallbackNoOpWitness ==
    \E i \in EmptyPasses :
        /\ batch_timer = i
        /\ \E j \in 1..(i - 1) :
              /\ timers[j].state = "done"
              /\ BagIn(timers[i].req, timers[j].files_to_process)
              /\ BagIn(timers[j].req, timers[j].files_to_process)
              /\ timers[i].req # timers[j].req

\* the number of passes that have captured r
CapturesIn(ts, r) ==
    Cardinality({ i \in DOMAIN ts : BagIn(r, ts[i].files_to_process) })

\* C27: a pass removes the requests it captures from pending_files in the
\* step that captures them: every capture of a request takes one pending
\* entry away and a pending entry goes away only by being captured by one
\* pass, which calls convert_file for it once; when all threads have ended
\* nothing is left pending.  So a request is dispatched by exactly one
\* pass, and by another one only if it was enqueued again after the capture.
ExactlyOnceDispatch ==
    /\ [][ \A r \in Requests :
             /\ CapturesIn(timers', r) # CapturesIn(timers, r)
                  => /\ CapturesIn(timers', r) = CapturesIn(timers, r) + 1
                     /\ BagIn(r, pending_files)
                     /\ ~BagIn(r, pending_files')
             /\ (BagIn(r, pending_files) /\ ~BagIn(r, pending_files'))
                  => CapturesIn(timers', r) = CapturesIn(timers, r) + 1
             /\ (~BagIn(r, pending_files) /\ BagIn(r, pending_files'))
                  => caller.pc = "locked" /\ caller.req = r /\ CopiesIn(r, pending_files') = 1
         ]_vars
    /\ [](\A i \in TimerIds : \A r \in BagToSet(timers[i].files_to_process) :
             /\ CopiesIn(r, timers[i].files_to_process) = 1
             /\ CallsFor(timers[i], r) <= 1
             /\ timers[i].state = "done" => CallsFor(timers[i], r) = 1)
    /\ [](Quiescent => pending_files = EmptyBag)

\* a pair was captured and converted by one pass, enqueued again after
\* that, and captured and converted by a second pass
ExactlyOnceDispatchWitness ==
    \E i, j \in TimerIds :
        /\ i < j
        /\ timers[i].state = "done"
        /\ timers[j].state = "done"
        /\ BagIn(timers[j].req, timers[i].files_to_process)
        /\ BagIn(timers[j].req, timers[j].files_to_process)
        /\ CallsFor(timers[i], timers[j].req) = 1
        /\ CallsFor(timers[j], timers[j].req) = 1

\* the timers that are started, not cancelled and not yet elapsed
Armed == { i \in TimerIds : timers[i].state = "armed" }

\* C28: pending_files and batch_timer change only in a step of the thread
\* that holds processing_lock (add_file) or that takes the free lock
\* (process_batch); at most one timer is armed at any time, and it is the
\* one batch_timer names; add_file arms a timer only under the lock and
\* after it has cancelled the timer batch_timer named before.
LockGuardsOneTimer ==
    /\ [](Cardinality(Armed) <= 1 /\ \A i \in Armed : batch_timer = i)
    /\ [][ /\ (pending_files' # pending_files \/ batch_timer' # batch_timer)
                => \/ processing_lock = CallerThread /\ caller.pc = "locked"
                   \/ /\ processing_lock = Free
                      /\ \E i \in DOMAIN timers :
                            /\ timers[i].state = "elapsed"
                            /\ timers'[i].state = "converting"
                            /\ processing_lock' = i
           /\ Len(timers') > Len(timers)
                => /\ processing_lock = CallerThread /\ caller.pc = "locked"
                   /\ Len(timers') = Len(timers) + 1
                   /\ batch_timer' = Len(timers')
                   /\ timers'[batch_timer'].state = "armed"
                   /\ batch_timer # 0 => timers'[batch_timer].state # "armed"
         ]_vars

\* add_file has cancelled the second timer and armed the third while the
\* callback of the first one, which had elapsed, has not yet run
LockGuardsOneTimerWitness ==
    /\ Len(timers) = 3
    /\ timers[1].state = "elapsed"
    /\ timers[2].state = "cancelled"
    /\ timers[3].state = "armed"
    /\ batch_timer = 3

\* C29: whenever processing_lock is free and pending_files is not empty, a
\* timer is armed or the callback of an elapsed timer is waiting to run,
\* also after add_file has cancelled a timer that had already elapsed.
NoStrandedRequests ==
    (processing_lock = Free /\ pending_files # EmptyBag)
        => \E i \in TimerIds : timers[i].state \in {"armed", "elapsed"}

\* the first timer elapsed, add_file then cancelled it without effect and
\* armed the second; the lock is free and both requests are pending
NoStrandedRequestsWitness ==
    /\ Len(timers) = 2
    /\ timers[1].state = "elapsed"
    /\ timers[2].state = "armed"
    /\ processing_lock = Free
    /\ caller.pc = "idle"
    /\ BagCardinality(pending_files) = 2

----------------------------------------------------------------------------
(* convert_file, step by step: one call with its calls of the image       *)
(* library, the probe and the transcoder.  conv.log is the list of those   *)
(* calls in the order they are made.                                       *)

\* max_gif_duration, in seconds
max_gif_duration == 30

\* the durations the probe may report
Durations == { max_gif_duration - 1, max_gif_duration, max_gif_duration + 1 }

PhotoPng == [stem |-> "photo", suffix |-> ".png"]
PhotoJpg == [stem |-> "photo", suffix |-> ".jpg"]
ClipMov  == [stem |-> "clip", suffix |-> ".mov"]
ClipMp4  == [stem |-> "clip", suffix |-> ".mp4"]
ClipMOV  == [stem |-> "clip", suffix |-> ".MOV"]

\* the arguments convert_file is called with
ConvPaths == { PhotoPng, PhotoJpg, PathPNG, PathMp3, ClipMov, ClipMp4, ClipMOV, PathTxt }
ConvFormats == { None, "", "jpg", "JPG", "Jpg", "png", "ico", "gif", "GIF", "xyz",
                 "mp3", "MP3", "wav", "mp4", "mov", "webm", "avi" }

\* what get_ffmpeg_binary_path returns: both binaries or none
Binaries == { <<"", "">>, <<"ffmpeg", "ffprobe">> }

NoPath == [stem |-> "", suffix |-> ""]

\* palette.png in the temporary directory
PalettePath == [stem |-> "tmp/palette", suffix |-> ".png"]

\* the values of image_format_mapping
PilFormat(fmt) ==
    CASE fmt = "jpg" -> "JPEG" [] fmt = "jpeg" -> "JPEG" [] fmt = "png" -> "PNG"
      [] fmt = "bmp" -> "BMP"  [] fmt = "gif" -> "GIF"   [] fmt = "webp" -> "WEBP"
      [] fmt = "tiff" -> "TIFF" [] fmt = "ico" -> "ICO"
      [] OTHER -> "KeyError"

\* file_path.suffix.lower()[1:]
InputFormat(file_path) == DropDot(Lower(file_path.suffix))

\* a bug: the default of the image class is used for every class
DefaultAlwaysImage(file_path) == default_format

\* the default output format of the class of file_path, None if it has no class
DefaultFor(file_path) ==
    LET suffix == Lower(file_path.suffix) IN
    IF suffix \in image_formats THEN default_format
    ELSE IF suffix \in audio_formats THEN default_audio_format
    ELSE IF suffix \in video_formats THEN default_video_format
    ELSE None

\* output_format after `if not output_format`
ChosenFormat(file_path, output_format) ==
    IF output_format \in {None, ""} THEN DefaultFor(file_path) ELSE output_format

\* a bug: the output is written over the source
SamePath(file_path, output_format) == file_path

\* file_path.with_suffix('.' + output_format)
WithSuffix(file_path, output_format) == [file_path EXCEPT !.suffix = "." \o output_format]

\* a bug: the comparison of the formats is lost
NeverSame(input_format, output_format) == FALSE

\* input_format == output_format
SameFormat(input_format, output_format) == input_format = output_format

\* a bug: the output format is looked up in the mappings of all classes
AnyClassOutput(suffix, output_format) ==
    output_format \in image_format_mapping \cup audio_format_mapping \cup video_format_mapping

\* output_format is a key of the mapping of the class of suffix
SupportedOutput(suffix, output_format) ==
    IF suffix \in image_formats THEN output_format \in image_format_mapping
    ELSE IF suffix \in audio_formats THEN output_format \in audio_format_mapping
    ELSE output_format \in video_format_mapping

\* a call of convert_file(file_path, output_format) that is about to start
ConvStart(file_path, output_format, bins) ==
    [ pc            |-> "convert_file",
      file_path     |-> file_path,
      requested     |-> output_format,
      decision      |-> "none",
      ffmpeg_bin    |-> bins[1],
      ffprobe_bin   |-> bins[2],
      output_format |-> None,
      output_path   |-> NoPath,
      duration      |-> -1,
      temp_dir      |-> "none",
      log           |-> << >>,
      outcome       |-> "none",
      error         |-> "",
      message       |-> "" ]

\* convert_file returns, or raises error
Returned(c) == [c EXCEPT !.pc = "done", !.outcome = "returned"]
Raised(c, error) == [c EXCEPT !.pc = "done", !.outcome = "raised", !.error = error]

\* convert_file raises error, and str(e) is message
RaisedWith(c, error, message) == [Raised(c, error) EXCEPT !.message = message]

ConvInit ==
    /\ pending_files = EmptyBag
    /\ processing_lock = Free
    /\ batch_timer = 0
    /\ timers = << >>
    /\ caller = [pc |-> "idle", req |-> <<PathTxt, None>>]
    /\ nCalls = 0
    /\ sinceIssue = 0
    /\ sinceAccept = 0
    /\ close = TRUE
    /\ spaced = TRUE
    /\ guard = GuardIdle
    /\ reg = RegIdle
    /\ \E file_path \in ConvPaths, output_format \in ConvFormats, bins \in Binaries :
          conv = ConvStart(file_path, output_format, bins)

\* the strategy convert_file hands the file to
Strategy(suffix) ==
    IF suffix \in image_formats THEN "_convert_image"
    ELSE IF suffix \in audio_formats THEN "_convert_audio"
    ELSE "_convert_video"

\* the call c of convert_file after its steps up to the choice of the
\* strategy; decision records which way it went
Started(c0) ==
    LET suffix == Lower(c0.file_path.suffix)
        input_format == InputFormat(c0.file_path)
        chosen == ChosenFormat(c0.file_path, c0.requested)
    IN  IF chosen = None
        THEN Raised([c0 EXCEPT !.decision = "no_format"], "AttributeError")
        ELSE LET output_format == Lower(chosen)
                 c == [c0 EXCEPT !.output_format = output_format,
                                 !.output_path = WithSuffix(c0.file_path, output_format)]
             IN  IF SameFormat(input_format, output_format)
                 THEN Returned([c EXCEPT !.decision = "skip"])
                 ELSE IF suffix \notin supported_formats
                 THEN Raised([c EXCEPT !.decision = "unsupported_input"], "UnsupportedInput")
                 ELSE IF ~SupportedOutput(suffix, output_format)
                 THEN Raised([c EXCEPT !.decision = "unsupported"], "UnsupportedFormat")
                 ELSE [c EXCEPT !.pc = Strategy(suffix), !.decision = Strategy(suffix)]

\* convert_file up to the choice of the strategy
ConvertFileStart ==
    /\ conv.pc = "convert_file"
    /\ conv' = Started(conv)
    /\ UNCHANGED << schedVars, guard, reg >>

\* one call of the image library, the probe or the transcoder
Call(tool, input, output, args, exit, stdout, stderr) ==
    [ tool |-> tool, input |-> input, output |-> output, args |-> args,
      exit |-> exit, stdout |-> stdout, stderr |-> stderr ]

\* _convert_image: Image.open, then img.save to output_path
ConvertImage ==
    /\ conv.pc = "_convert_image"
    /\ LET pil_format == PilFormat(conv.output_format)
           open(exit) == Call("image_open", conv.file_path, NoPath, << >>, exit, "", "")
           save(exit) == Call("image_save", conv.file_path, conv.output_path,
                              << pil_format >>, exit, "", "")
       IN  \/ conv' = Raised([conv EXCEPT !.log = Append(@, open(1))], "ImageError")
           \/ conv' = Raised([conv EXCEPT !.log = Append(Append(@, open(0)), save(1))],
                             "ImageError")
           \/ conv' = Returned([conv EXCEPT !.log = Append(Append(@, open(0)), save(0))])
    /\ UNCHANGED << schedVars, guard, reg >>

\* what a child process may have written to its stderr
Stderrs == { "", "Invalid data found when processing input" }

\* a bug: the transcoder is started without a test of the binary
NoBinaryCheck(ffmpeg_bin) == {"exit0", "nonzero"}

\* run_ffmpeg_command: how a call can go
FfmpegResults(ffmpeg_bin) ==
    IF ffmpeg_bin = "" THEN {"not_found"} ELSE {"exit0", "nonzero"}

\* a bug: the exit code of the transcoder is not looked at
IgnoreExit(res) == res = "not_found"

\* run_ffmpeg_command raises
FfmpegRaises(res) == res # "exit0"

FfmpegError(res) == IF res = "not_found" THEN "ToolNotFound" ELSE "ExternalToolFailure"

\* a bug: the text of the failure does not depend on the child's stderr
FixedText(res, stderr) == "FFmpeg error"

\* the text of the exception run_ffmpeg_command raises
FfmpegMessage(res, stderr) ==
    IF res = "not_found" THEN "FFmpeg binary not found or not working"
    ELSE "FFmpeg error: " \o stderr

\* the log after run_ffmpeg_command: a child process unless the binary is missing
AfterFfmpeg(log, input, output, extra_args, res, stderr) ==
    IF res = "not_found" THEN log
    ELSE Append(log, Call("ffmpeg", input, output, extra_args,
                          IF res = "exit0" THEN 0 ELSE 1, "", stderr))

\* _convert_audio: one call of the transcoder without extra arguments
ConvertAudio ==
    /\ conv.pc = "_convert_audio"
    /\ \E res \in FfmpegResults(conv.ffmpeg_bin), stderr \in Stderrs :
         LET c == [conv EXCEPT !.log = AfterFfmpeg(@, conv.file_path, conv.output_path,
                                                   << >>, res, stderr)]
         IN  conv' = IF FfmpegRaises(res)
                     THEN RaisedWith(c, FfmpegError(res), FfmpegMessage(res, stderr))
                     ELSE Returned(c)
    /\ UNCHANGED << schedVars, guard, reg >>

\* a bug: no target gets extra arguments
NoExtraArgs(output_format) == << >>

\* extra_args of _convert_video
VideoArgs(output_format) ==
    IF output_format \in {"mp4", "mov"}
    THEN << "-c:v", "libx264", "-c:a", "aac", "-preset", "medium", "-crf", "23" >>
    ELSE IF output_format = "webm"
    THEN << "-c:v", "libvpx-vp9", "-c:a", "libopus", "-crf", "30", "-b:v", "0" >>
    ELSE << >>

\* _convert_video: to the GIF steps, or one call of the transcoder
ConvertVideo ==
    /\ conv.pc = "_convert_video"
    /\ IF conv.output_format = "gif"
       THEN conv' = [conv EXCEPT !.pc = "_get_video_duration"]
       ELSE \E res \in FfmpegResults(conv.ffmpeg_bin), stderr \in Stderrs :
              LET c == [conv EXCEPT !.log = AfterFfmpeg(@, conv.file_path, conv.output_path,
                                                        VideoArgs(conv.output_format),
                                                        res, stderr)]
              IN  conv' = IF FfmpegRaises(res)
                          THEN RaisedWith(c, FfmpegError(res), FfmpegMessage(res, stderr))
                          ELSE Returned(c)
    /\ UNCHANGED << schedVars, guard, reg >>

probe_args == << "-show_entries", "format=duration", "-of", "json" >>

\* run_ffprobe_command and the parsing of its output: how they can go
ProbeResults(ffprobe_bin) ==
    IF ffprobe_bin = "" THEN { [kind |-> "not_found", value |-> 0] }
    ELSE { [kind |-> k, value |-> 0] : k \in {"nonzero", "no_duration", "not_a_number"} }
         \cup { [kind |-> "duration", value |-> d] : d \in Durations }

\* a bug: only the exit code of the probe is looked at
TolerantProbe(res) == res.kind \in {"not_found", "nonzero"}

\* _get_video_duration raises
ProbeFails(res) == res.kind # "duration"

\* float(data['format']['duration'])
ParsedDuration(res) == res.value

\* the text of the exception _get_video_duration raises
ProbeMessage(res, stderr) ==
    CASE res.kind = "not_found"    -> "FFprobe binary not found or not working"
      [] res.kind = "nonzero"      -> "FFprobe error: " \o stderr
      [] res.kind = "no_duration"  -> "KeyError"
      [] OTHER                     -> "ValueError"

\* _get_video_duration
GetVideoDuration ==
    /\ conv.pc = "_get_video_duration"
    /\ \E res \in ProbeResults(conv.ffprobe_bin), stderr \in Stderrs :
         LET stdout == IF res.kind = "nonzero" THEN "" ELSE res.kind
             c == IF res.kind = "not_found" THEN conv
                  ELSE [conv EXCEPT !.log = Append(@, Call("ffprobe", conv.file_path, NoPath,
                                                           probe_args,
                                                           IF res.kind = "nonzero" THEN 1 ELSE 0,
                                                           stdout, stderr))]
         IN  conv' = IF ProbeFails(res)
                     THEN RaisedWith(c, IF res.kind = "not_found" THEN "ToolNotFound"
                                        ELSE "ProbeFailed",
                                     ProbeMessage(res, stderr))
                     ELSE [c EXCEPT !.duration = ParsedDuration(res), !.pc = "duration_check"]
    /\ UNCHANGED << schedVars, guard, reg >>

\* a bug: a video of exactly the maximal duration is refused
AtLeastMax(duration) == duration >= max_gif_duration

\* duration > self.max_gif_duration
ExceedsMax(duration) == duration > max_gif_duration

\* the test of the duration; _convert_video_to_gif creates its temporary directory
GifDurationCheck ==
    /\ conv.pc = "duration_check"
    /\ conv' = IF ExceedsMax(conv.duration)
               THEN Raised(conv, "DurationExceeded")
               ELSE [conv EXCEPT !.pc = "palette", !.temp_dir = "exists"]
    /\ UNCHANGED << schedVars, guard, reg >>

palette_args == << "-vf", "fps=10,scale=480:-1:flags=lanczos,palettegen" >>
gif_args == << "-i", "tmp/palette.png", "-filter_complex",
               "fps=10,scale=480:-1:flags=lanczos[x];[x][1:v]paletteuse" >>

\* a bug: the directory is removed only at the end of a successful conversion
LeakOnError(ok) == IF ok THEN "removed" ELSE "exists"

\* the temporary directory when the with block is left
TempOnExit(ok) == "removed"

\* the palette pass
PalettePass ==
    /\ conv.pc = "palette"
    /\ \E res \in FfmpegResults(conv.ffmpeg_bin), stderr \in Stderrs :
         LET c == [conv EXCEPT !.log = AfterFfmpeg(@, conv.file_path, PalettePath,
                                                   palette_args, res, stderr)]
         IN  conv' = IF FfmpegRaises(res)
                     THEN RaisedWith([c EXCEPT !.temp_dir = TempOnExit(FALSE)],
                                     FfmpegError(res), FfmpegMessage(res, stderr))
                     ELSE [c EXCEPT !.pc = "render"]
    /\ UNCHANGED << schedVars, guard, reg >>

\* the render pass
RenderPass ==
    /\ conv.pc = "render"
    /\ \E res \in FfmpegResults(conv.ffmpeg_bin), stderr \in Stderrs :
         LET c == [conv EXCEPT !.log = AfterFfmpeg(@, conv.file_path, conv.output_path,
                                                   gif_args, res, stderr)]
         IN  conv' = IF FfmpegRaises(res)
                     THEN RaisedWith([c EXCEPT !.temp_dir = TempOnExit(FALSE)],
                                     FfmpegError(res), FfmpegMessage(res, stderr))
                     ELSE Returned([c EXCEPT !.temp_dir = TempOnExit(TRUE)])
    /\ UNCHANGED << schedVars, guard, reg >>

ConvNext ==
    \/ ConvertFileStart
    \/ ConvertImage
    \/ ConvertAudio
    \/ ConvertVideo
    \/ GetVideoDuration
    \/ GifDurationCheck
    \/ PalettePass
    \/ RenderPass

ConvSpec == ConvInit /\ [][ConvNext]_vars

\* the call ends the way the batching engine's view of convert_file allows
ConvTypeOK ==
    /\ conv.pc \in {"convert_file", "_convert_image", "_convert_audio", "_convert_video",
                    "_get_video_duration", "duration_check", "palette", "render", "done"}
    /\ conv.outcome \in {"none", "returned", "raised"}
    /\ conv.temp_dir \in {"none", "exists", "removed"}
    /\ conv.pc = "done" <=> conv.outcome # "none"
    /\ conv.pc = "done" => conv.outcome \in ConvertFile(conv.file_path, conv.requested)

----------------------------------------------------------------------------
(* Properties of convert_file *)

IsImage(file_path) == Lower(file_path.suffix) \in image_formats
IsAudio(file_path) == Lower(file_path.suffix) \in audio_formats
IsVideo(file_path) == Lower(file_path.suffix) \in video_formats

\* the calls that start a child process
ChildCalls == { k \in DOMAIN conv.log : conv.log[k].tool \in {"ffmpeg", "ffprobe"} }
TranscoderCalls == { k \in DOMAIN conv.log : conv.log[k].tool = "ffmpeg" }

\* the calls that write the file path
WritesTo(path) == { k \in DOMAIN conv.log : conv.log[k].output = path }

\* C11: photo.png enqueued without a format is converted by the image
\* strategy into a new file photo.<default image format>.
PhotoPngProducesDefault ==
    (conv.pc = "done" /\ conv.file_path = PhotoPng /\ conv.requested = None)
        => \E k \in WritesTo([stem |-> "photo", suffix |-> ".png"]) :
              conv.log[k].tool = "image_save"

\* C11 as amended: an image whose extension is not png, converted without
\* a format, is written by the image library to <stem>.png and the source
\* is not written; a png source without a format is skipped.
DefaultImageOutput ==
    (conv.pc = "done" /\ IsImage(conv.file_path) /\ conv.requested = None)
        => IF InputFormat(conv.file_path) = "png"
           THEN conv.outcome = "returned" /\ conv.log = << >>
           ELSE /\ conv.output_path = [stem |-> conv.file_path.stem, suffix |-> ".png"]
                /\ WritesTo(conv.file_path) = {}
                /\ conv.outcome = "returned"
                     => \E k \in WritesTo(conv.output_path) :
                           /\ conv.log[k].tool = "image_save"
                           /\ conv.log[k].args = << "PNG" >>
                           /\ conv.log[k].exit = 0

DefaultImageOutputWitness ==
    /\ conv.pc = "done"
    /\ conv.file_path = PhotoJpg
    /\ conv.requested = None
    /\ conv.outcome = "returned"
    /\ WritesTo([stem |-> "photo", suffix |-> ".png"]) # {}

\* C12: without an explicit format the output format is the default of the
\* class of the source: png for images, mp3 for audio, mp4 for video.
DefaultFormatSelected ==
    (conv.pc # "convert_file" /\ conv.requested \in {None, ""}
                              /\ Lower(conv.file_path.suffix) \in supported_formats)
        => conv.output_format =
              IF IsImage(conv.file_path) THEN "png"
              ELSE IF IsAudio(conv.file_path) THEN "mp3"
              ELSE "mp4"

DefaultFormatSelectedWitness ==
    /\ conv.pc = "done"
    /\ conv.file_path = ClipMov
    /\ conv.requested = ""
    /\ conv.output_format = "mp4"
    /\ conv.outcome = "returned"

\* C13: when the extension of the source equals the resolved output format,
\* convert_file returns without calling the image library, the transcoder
\* or the probe.
SameFormatSkip ==
    (conv.pc # "convert_file" /\ InputFormat(conv.file_path) = conv.output_format)
        => /\ conv.pc = "done"
           /\ conv.outcome = "returned"
           /\ conv.log = << >>
           /\ conv.temp_dir = "none"

SameFormatSkipWitness ==
    /\ conv.pc = "done"
    /\ conv.file_path = PathPNG
    /\ conv.requested = "png"
    /\ conv.outcome = "returned"

\* the output mapping of the class of the source
OwnMapping(file_path) ==
    IF IsImage(file_path) THEN image_format_mapping
    ELSE IF IsAudio(file_path) THEN audio_format_mapping
    ELSE video_format_mapping

\* C14: an output format that differs from the input format and is not a
\* key of the output mapping of the source's own class makes convert_file
\* fail before any call of a tool.
UnsupportedRejected ==
    (/\ conv.pc # "convert_file"
     /\ conv.output_format # None
     /\ Lower(conv.file_path.suffix) \in supported_formats
     /\ InputFormat(conv.file_path) # conv.output_format
     /\ conv.output_format \notin OwnMapping(conv.file_path))
        => /\ conv.pc = "done"
           /\ conv.outcome = "raised"
           /\ conv.error = "UnsupportedFormat"
           /\ conv.log = << >>

UnsupportedRejectedWitness ==
    /\ conv.pc = "done"
    /\ conv.file_path = PhotoJpg
    /\ conv.requested = "mp3"
    /\ conv.outcome = "raised"

\* C15: for a video with target gif, a probed duration of at most
\* max_gif_duration lets the palette pass run, and the render pass after a
\* palette pass that succeeded; a longer duration makes the conversion fail
\* without a call of the transcoder and without an output file.
GifDurationPolicy ==
    (conv.duration >= 0 /\ conv.pc # "duration_check")
        => IF conv.duration > max_gif_duration
           THEN /\ conv.pc = "done"
                /\ conv.outcome = "raised"
                /\ conv.error = "DurationExceeded"
                /\ TranscoderCalls = {}
                /\ WritesTo(conv.output_path) = {}
                /\ conv.temp_dir = "none"
           ELSE /\ conv.error # "DurationExceeded"
                /\ conv.pc = "done"
                     => /\ \E k \in TranscoderCalls : conv.log[k].args = palette_args
                        /\ (\E k \in TranscoderCalls :
                                conv.log[k].args = palette_args /\ conv.log[k].exit = 0)
                             => \E k \in TranscoderCalls : conv.log[k].args = gif_args

GifDurationPolicyWitness ==
    /\ conv.pc = "done"
    /\ conv.duration = max_gif_duration
    /\ conv.outcome = "returned"
    /\ WritesTo(conv.output_path) # {}

\* C16: a video-to-GIF conversion calls the transcoder only after a probe
\* that succeeded and a duration within the limit, calls the render pass
\* only right after a palette pass with exit code 0, and when it succeeds
\* it has made exactly the calls probe, palette pass, render pass.
GifOrdering ==
    (IsVideo(conv.file_path) /\ conv.output_format = "gif")
        => /\ \A k \in TranscoderCalls :
                /\ k > 1
                /\ conv.log[1].tool = "ffprobe"
                /\ conv.log[1].exit = 0
                /\ conv.duration >= 0
                /\ conv.duration <= max_gif_duration
           /\ \A k \in TranscoderCalls :
                conv.log[k].args = gif_args
                    => /\ conv.log[k - 1].args = palette_args
                       /\ conv.log[k - 1].exit = 0
           /\ (conv.pc = "done" /\ conv.outcome = "returned")
                => /\ Len(conv.log) = 3
                   /\ conv.log[1].tool = "ffprobe"
                   /\ \E stderr \in Stderrs :
                        conv.log[2] = Call("ffmpeg", conv.file_path, PalettePath,
                                           palette_args, 0, "", stderr)
                   /\ \E stderr \in Stderrs :
                        conv.log[3] = Call("ffmpeg", conv.file_path, conv.output_path,
                                           gif_args, 0, "", stderr)

GifOrderingWitness ==
    /\ conv.pc = "done"
    /\ conv.file_path = ClipMov
    /\ conv.output_format = "gif"
    /\ conv.outcome = "returned"
    /\ Len(conv.log) = 3

\* C17: the temporary palette directory does not exist any more when
\* _convert_video_to_gif has returned or raised.
TempDirReleased ==
    /\ conv.pc = "done" => conv.temp_dir # "exists"
    /\ conv.temp_dir = "exists" => conv.pc \in {"palette", "render"}

TempDirReleasedWitness ==
    /\ conv.pc = "done"
    /\ conv.outcome = "raised"
    /\ conv.temp_dir = "removed"
    /\ Len(conv.log) = 3
    /\ conv.log[3].exit = 1

\* C18: a probe that exits nonzero, or whose output has no format.duration
\* or one that is not a number, makes the conversion fail without a call of
\* the transcoder and without a temporary directory.
ProbeFailureStops ==
    (\E k \in ChildCalls :
        /\ conv.log[k].tool = "ffprobe"
        /\ (conv.log[k].exit # 0 \/ conv.log[k].stdout # "duration"))
        => /\ conv.pc = "done"
           /\ conv.outcome = "raised"
           /\ TranscoderCalls = {}
           /\ conv.temp_dir = "none"

ProbeFailureStopsWitness ==
    /\ conv.pc = "done"
    /\ conv.outcome = "raised"
    /\ Len(conv.log) = 1
    /\ conv.log[1].tool = "ffprobe"
    /\ conv.log[1].stdout = "not_a_number"

\* the call was neither skipped nor refused for its formats
Attempted ==
    /\ conv.pc = "done"
    /\ InputFormat(conv.file_path) # conv.output_format
    /\ conv.error \notin {"UnsupportedFormat", "UnsupportedInput", "AttributeError"}

\* C19: without the external binaries every conversion that is neither
\* skipped nor rejected fails, for image, audio and video sources alike,
\* and no child process is started.
ToolNotFoundAllFail ==
    (conv.ffmpeg_bin = "" /\ conv.ffprobe_bin = "" /\ Attempted)
        => conv.outcome = "raised" /\ ChildCalls = {}

\* C19 as amended: without the external binaries no child process is
\* started and every audio or video conversion that is neither skipped nor
\* rejected fails; an image conversion is left to the image library.
ToolNotFoundMediaFail ==
    (conv.ffmpeg_bin = "" /\ conv.ffprobe_bin = "")
        => /\ ChildCalls = {}
           /\ (Attempted /\ ~IsImage(conv.file_path))
                => conv.outcome = "raised" /\ conv.error = "ToolNotFound"
           /\ (Attempted /\ IsImage(conv.file_path))
                => conv.log # << >> /\ \A k \in DOMAIN conv.log :
                                          conv.log[k].tool \in {"image_open", "image_save"}

ToolNotFoundMediaFailWitness ==
    /\ conv.ffmpeg_bin = ""
    /\ conv.pc = "done"
    /\ conv.file_path = PathMp3
    /\ conv.requested = "wav"
    /\ conv.outcome = "raised"
    /\ conv.error = "ToolNotFound"

\* the text the runner puts before the stderr of a failed child process
ErrorPrefix(tool) == IF tool = "ffprobe" THEN "FFprobe error: " ELSE "FFmpeg error: "

\* C22: a transcoder or probe call that exits nonzero is the last call of
\* its conversion and makes it fail with a text that holds the stderr the
\* child wrote; after a call that exits 0 the conversion goes on, so it never
\* fails as a failed child process; a conversion that succeeds has made no
\* call that exited nonzero.
NonzeroExitRaises ==
    /\ \A k \in ChildCalls :
          conv.log[k].exit # 0
             => /\ k = Len(conv.log)
                /\ conv.pc = "done"
                /\ conv.outcome = "raised"
                /\ conv.message = ErrorPrefix(conv.log[k].tool) \o conv.log[k].stderr
    /\ \A k \in ChildCalls :
          (conv.log[k].exit = 0 /\ k = Len(conv.log) /\ conv.outcome = "raised")
             => conv.error # "ExternalToolFailure" /\ conv.message # ErrorPrefix(conv.log[k].tool) \o conv.log[k].stderr
    /\ conv.outcome = "returned" => \A k \in ChildCalls : conv.log[k].exit = 0

\* the render pass of a GIF conversion failed and wrote to its stderr
NonzeroExitRaisesWitness ==
    /\ conv.pc = "done"
    /\ conv.outcome = "raised"
    /\ Len(conv.log) = 3
    /\ conv.log[1].tool = "ffprobe"
    /\ conv.log[3].exit # 0
    /\ conv.log[3].stderr # ""
    /\ conv.message = "FFmpeg error: Invalid data found when processing input"

\* the calls that write a file
Writes == { k \in DOMAIN conv.log : conv.log[k].tool \in {"image_save", "ffmpeg"} }

\* the source path with its extension replaced by the resolved format
ExpectedOutput == [stem |-> conv.file_path.stem, suffix |-> "." \o conv.output_format]

\* C23: in a conversion that reaches a strategy the resolved output format
\* is lower-case, the image library's save and the last call of the
\* transcoder write the source path with its extension replaced by that
\* format, and apart from the temporary palette file no other path is
\* written.
OutputPathDerived ==
    conv.pc \notin {"idle", "convert_file"} /\ (conv.pc # "done" \/ conv.log # << >>)
        => /\ conv.output_format = Lower(conv.output_format)
           /\ conv.requested \notin {None, ""} => conv.output_format = Lower(conv.requested)
           /\ conv.output_path = ExpectedOutput
           /\ \A k \in Writes : conv.log[k].output \in {ExpectedOutput, PalettePath}
           /\ \A k \in Writes : conv.log[k].output = PalettePath
                                   => conv.log[k].args = palette_args
           /\ (conv.outcome = "returned" /\ Writes # {})
                => conv.log[Len(conv.log)].output = ExpectedOutput

\* a.PNG with the format JPG is written to a.jpg
OutputPathDerivedWitness ==
    /\ conv.pc = "done"
    /\ conv.file_path = PathPNG
    /\ conv.requested = "JPG"
    /\ conv.outcome = "returned"
    /\ WritesTo([stem |-> "a", suffix |-> ".jpg"]) # {}

\* C24: a video conversion to a target other than gif, once it was
\* neither skipped nor rejected, has called the transcoder once and the
\* probe never: with the binary there, one child process from the source to
\* the output path, with x264, AAC, preset medium and CRF 23 for mp4 and mov,
\* with VP9, Opus, CRF 30 and bitrate 0 for webm, and with no extra
\* arguments for any other container; without the binary that one call
\* fails before a child process is started.
NonGifVideoOneCall ==
    (IsVideo(conv.file_path) /\ Attempted /\ conv.output_format # "gif")
        => /\ \A k \in DOMAIN conv.log : conv.log[k].tool = "ffmpeg"
           /\ conv.temp_dir = "none"
           /\ IF conv.ffmpeg_bin = ""
              THEN conv.log = << >> /\ conv.error = "ToolNotFound"
              ELSE /\ Len(conv.log) = 1
                   /\ conv.log[1].input = conv.file_path
                   /\ conv.log[1].output = conv.output_path
                   /\ conv.log[1].args =
                        CASE conv.output_format \in {"mp4", "mov"}
                               -> << "-c:v", "libx264", "-c:a", "aac",
                                     "-preset", "medium", "-crf", "23" >>
                          [] conv.output_format = "webm"
                               -> << "-c:v", "libvpx-vp9", "-c:a", "libopus",
                                     "-crf", "30", "-b:v", "0" >>
                          [] OTHER -> << >>

\* clip.mp4 has been converted to clip.webm
NonGifVideoOneCallWitness ==
    /\ conv.pc = "done"
    /\ conv.file_path = ClipMp4
    /\ conv.output_format = "webm"
    /\ conv.outcome = "returned"
    /\ Len(conv.log) = 1
    /\ conv.log[1].args # << >>

\* strings that differ in the case of their letters only
CaseClasses ==
    { {"jpg", "JPG", "Jpg"}, {"png", "PNG"}, {"gif", "GIF"}, {"mp3", "MP3"},
      {".png", ".PNG"}, {".mp3", ".Mp3"}, {".mov", ".MOV"} }

SameLetters(a, b) == a = b \/ \E S \in CaseClasses : a \in S /\ b \in S

\* the lower-case spelling of a string of CaseClasses
LowerCaseOf(a) ==
    IF \E S \in CaseClasses : a \in S
    THEN CHOOSE b \in {"jpg", "png", "gif", "mp3", ".png", ".mp3", ".mov"} : SameLetters(a, b)
    ELSE a

\* what a call of convert_file decides and which path it targets
Decision(c) == << c.decision, c.output_format, c.output_path >>

\* C25: a call of convert_file decides as the call with the same format in
\* any other letter case does (skip, unsupported, or the same strategy) and
\* targets the same output path, whose extension is the format in lower
\* case; the same holds for a source whose extension differs in letter case
\* only, which add_file also treats alike.
CaseInsensitiveFormats ==
    conv.pc \notin {"idle", "convert_file"}
        => /\ \A other \in ConvFormats :
                SameLetters(other, conv.requested)
                   => Decision(Started(ConvStart(conv.file_path, other,
                                                 << conv.ffmpeg_bin, conv.ffprobe_bin >>)))
                        = Decision(conv)
           /\ \A suffix \in UNION CaseClasses :
                SameLetters(suffix, conv.file_path.suffix)
                   => LET other == [conv.file_path EXCEPT !.suffix = suffix]
                          c == Started(ConvStart(other, conv.requested,
                                                 << conv.ffmpeg_bin, conv.ffprobe_bin >>))
                      IN  /\ c.decision = conv.decision
                          /\ c.output_format = conv.output_format
                          /\ c.output_path = conv.output_path
                          /\ Recognized(other) = Recognized(conv.file_path)
           /\ conv.decision \notin {"no_format", "none"}
                => /\ conv.requested \notin {None, ""}
                      => conv.output_format = LowerCaseOf(conv.requested)
                   /\ conv.output_path.suffix = "." \o conv.output_format

\* a.PNG with the format Jpg has gone to the image strategy and to a.jpg
CaseInsensitiveFormatsWitness ==
    /\ conv.pc = "done"
    /\ conv.file_path = PathPNG
    /\ conv.requested = "Jpg"
    /\ conv.decision = "_convert_image"
    /\ conv.outcome = "returned"
    /\ conv.output_path = [stem |-> "a", suffix |-> ".jpg"]

\* the request is for a source that already has the resolved output format
IsSkip(r) ==
    /\ ChosenFormat(r[1], r[2]) # None
    /\ InputFormat(r[1]) = Lower(ChosenFormat(r[1], r[2]))

\* the skipped requests among those a pass has gone through
SkippedBy(t) ==
    { r \in BagToSet(t.files_to_process) : ~BagIn(r, t.todo) /\ IsSkip(r) }

\* C30: a request that convert_file skips because the source already has
\* the resolved output format is counted in success_count and not in
\* fail_count: success_count is the number of calls of the pass that
\* returned, skipped ones included.
SkipCountsAsSuccess ==
    \A i \in TimerIds :
        LET t == timers[i]
            processed == BagCardinality(t.files_to_process) - BagCardinality(t.todo)
        IN  /\ \A r \in SkippedBy(t) :
                  /\ CopiesIn(<< r, "returned" >>, t.results) = 1
                  /\ CopiesIn(<< r, "raised" >>, t.results) = 0
            /\ t.success_count = CountOutcome(t.results, "returned")
            /\ t.success_count >= Cardinality(SkippedBy(t))
            /\ t.fail_count <= processed - Cardinality(SkippedBy(t))
            /\ t.success_count + t.fail_count = processed

\* a pass of a skipped request and a rejected one counted one of each
SkipCountsAsSuccessWitness ==
    \E i \in TimerIds :
        /\ timers[i].state = "done"
        /\ BagToSet(timers[i].files_to_process) = { << PathPNG, None >>, << PathMp3, "xyz" >> }
        /\ IsSkip(<< PathPNG, None >>)
        /\ timers[i].success_count = 1
        /\ timers[i].fail_count = 1

----------------------------------------------------------------------------
(* The batching engine called with requests for one path whose formats     *)
(* resolve to the same output format.                                      *)

\* add_file(photo.jpg) without a format, with the default and in upper case
RawRequests == { << PhotoJpg, None >>, << PhotoJpg, "png" >>, << PhotoJpg, "PNG" >> }

RawNext ==
    \/ \E r \in RawRequests : AddFileCall(r)
    \/ AddFileEnter
    \/ AddFileBody
    \/ \E i \in TimerIds : TimerElapse(i)
    \/ \E i \in TimerIds : BatchEnter(i)
    \/ \E i \in TimerIds : ConvertItem(i)
    \/ \E i \in TimerIds : BatchExit(i)
    \/ Tick

RawSpec == Init /\ [][RawNext]_vars

\* the path and the lower-case output format a request resolves to
Target(r) == << r[1], Lower(ChosenFormat(r[1], r[2])) >>

\* C31: pending_files holds the pairs as add_file got them: a request
\* becomes an entry of its own unless the very same pair is pending, also
\* when a pending pair for the same path resolves to the same output, and
\* the pass calls convert_file once for every pair it captured.
RawPairDedup ==
    /\ [][ (caller.pc = "locked" /\ caller'.pc = "idle" /\ IsSupportedExt(caller.req[1]))
              => /\ BagToSet(pending_files') = BagToSet(pending_files) \cup {caller.req}
                 /\ BagCardinality(pending_files')
                      = Cardinality(BagToSet(pending_files) \cup {caller.req})
         ]_vars
    /\ [](\A i \in TimerIds :
             /\ BagCardinality(timers[i].files_to_process)
                  = Cardinality(BagToSet(timers[i].files_to_process))
             /\ timers[i].state = "done"
                  => /\ \A r \in BagToSet(timers[i].files_to_process) :
                           CallsFor(timers[i], r) = 1
                     /\ BagCardinality(timers[i].results)
                          = Cardinality(BagToSet(timers[i].files_to_process)))

\* photo.jpg was enqueued without a format, with png and with PNG; one pass
\* captured the three pairs and called convert_file three times
RawPairDedupWitness ==
    \E i \in TimerIds :
        /\ timers[i].state = "done"
        /\ BagToSet(timers[i].files_to_process) = RawRequests
        /\ \A q, r \in RawRequests : Target(q) = Target(r)
        /\ BagCardinality(timers[i].results) = 3

----------------------------------------------------------------------------
(* The instances of FileConverter (one per process) that share the lock    *)
(* file converter.lock in the temporary directory.                         *)

\* the processes that run a FileConverter
NumInstances == 3

\* processing passes one instance runs
MaxPasses == 3

InstanceIds == 1..NumInstances

\* FileConverter.__init__: the FileLock is created, not acquired
GuardStart ==
    [ pc      |-> "run",
      os_lock |-> 0,           \* the instance whose handle locks the file, 0 if none
      inst    |-> [k \in InstanceIds |->
                     [ alive       |-> TRUE,
                       file_handle |-> None,
                       pass        |-> "idle",
                       passes      |-> 0 ]] ]

GuardInit ==
    /\ pending_files = EmptyBag
    /\ processing_lock = Free
    /\ batch_timer = 0
    /\ timers = << >>
    /\ caller = [pc |-> "idle", req |-> <<PathTxt, None>>]
    /\ nCalls = 0
    /\ sinceIssue = 0
    /\ sinceAccept = 0
    /\ close = TRUE
    /\ spaced = TRUE
    /\ conv = ConvIdle
    /\ guard = GuardStart
    /\ reg = RegIdle

\* FileLock.release of instance k
Release(g, k) ==
    IF g.inst[k].file_handle # None
    THEN [g EXCEPT !.os_lock = IF @ = k THEN 0 ELSE @,
                   !.inst[k].file_handle = None]
    ELSE g

\* process_batch of instance k captures a non-empty batch and converts
PassBegin(k) ==
    /\ guard.inst[k].alive
    /\ guard.inst[k].pass = "idle"
    /\ guard.inst[k].passes < MaxPasses
    /\ guard' = [guard EXCEPT !.inst[k].pass = "converting",
                              !.inst[k].passes = @ + 1]
    /\ UNCHANGED << schedVars, conv, reg >>

\* the pass of instance k is over
PassEnd(k) ==
    /\ guard.inst[k].alive
    /\ guard.inst[k].pass = "converting"
    /\ guard' = [guard EXCEPT !.inst[k].pass = "idle"]
    /\ UNCHANGED << schedVars, conv, reg >>

\* the process of instance k ends: _cleanup, registered with atexit
Cleanup(k) ==
    /\ guard.inst[k].alive
    /\ guard.inst[k].pass = "idle"
    /\ guard' = [Release(guard, k) EXCEPT !.inst[k].alive = FALSE]
    /\ UNCHANGED << schedVars, conv, reg >>

GuardNext ==
    \/ \E k \in InstanceIds : PassBegin(k)
    \/ \E k \in InstanceIds : PassEnd(k)
    \/ \E k \in InstanceIds : Cleanup(k)

GuardSpec == GuardInit /\ [][GuardNext]_vars

\* C20: two instances that share the lock file never run a processing
\* pass at the same time.
SingleInstanceGuard ==
    \A j, k \in InstanceIds :
        (guard.inst[j].pass = "converting" /\ guard.inst[k].pass = "converting") => j = k

----------------------------------------------------------------------------
(* FileLock: the objects that lock one byte of the same lock file, and a   *)
(* client that calls acquire() and release() on them in any order.         *)

\* calls of acquire() and release() the clients make
MaxLockOps == 8

\* FileLock.__init__ of every object: no handle, nobody locks the file
LockStart ==
    [ pc      |-> "filelock",
      os_lock |-> 0,
      inst    |-> GuardStart.inst,
      nOps    |-> 0,
      last    |-> [op |-> "none", k |-> 0, ret |-> FALSE] ]

LockInit ==
    /\ pending_files = EmptyBag
    /\ processing_lock = Free
    /\ batch_timer = 0
    /\ timers = << >>
    /\ caller = [pc |-> "idle", req |-> <<PathTxt, None>>]
    /\ nCalls = 0
    /\ sinceIssue = 0
    /\ sinceAccept = 0
    /\ close = TRUE
    /\ spaced = TRUE
    /\ conv = ConvIdle
    /\ guard = LockStart
    /\ reg = RegIdle

\* self.file_handle = open(self.lock_file, 'a+'): a handle the object still
\* had is dropped and closed, and with it the lock that handle held
Reopened(g, k) ==
    [g EXCEPT !.os_lock = IF @ = k THEN 0 ELSE @,
              !.inst[k].file_handle = "open"]

\* msvcrt.locking(..., LK_NBLCK, 1) raises at once when the byte is locked
LockingRaises(g) == g.os_lock # 0

\* a bug: the handle of a failed acquire is kept
KeepHandle(h) == h

\* the except branch of acquire: the handle is closed and forgotten
AfterFailedLock(h) == None

\* FileLock.acquire of object k
Acquire(g, k) ==
    LET o == Reopened(g, k) IN
    IF LockingRaises(o)
    THEN [o EXCEPT !.inst[k].file_handle = AfterFailedLock(@),
                   !.last = [op |-> "acquire", k |-> k, ret |-> FALSE]]
    ELSE [o EXCEPT !.os_lock = k,
                   !.last = [op |-> "acquire", k |-> k, ret |-> TRUE]]

\* a client calls acquire() on object k
AcquireOp(k) ==
    /\ guard.pc = "filelock"
    /\ guard.nOps < MaxLockOps
    /\ guard' = [Acquire(guard, k) EXCEPT !.nOps = @ + 1]
    /\ UNCHANGED << schedVars, conv, reg >>

\* a client calls release() on object k
ReleaseOp(k) ==
    /\ guard.pc = "filelock"
    /\ guard.nOps < MaxLockOps
    /\ guard' = [Release(guard, k) EXCEPT !.nOps = @ + 1,
                                          !.last = [op |-> "release", k |-> k, ret |-> FALSE]]
    /\ UNCHANGED << schedVars, conv, reg >>

LockNext ==
    \/ \E k \in InstanceIds : AcquireOp(k)
    \/ \E k \in InstanceIds : ReleaseOp(k)

LockSpec == LockInit /\ [][LockNext]_vars

\* the objects other than k that hold the lock
OtherHolders(k) == { j \in InstanceIds \ {k} : guard.os_lock = j }

\* C21: acquire() is never kept waiting; it returns True when no other
\* object holds the lock and False when one does; after a failed acquire
\* file_handle is None and the holder keeps the lock; release() on an object
\* without a handle (never acquired, acquire failed, or released before)
\* changes nothing.
FileLockContract ==
    /\ [](\A k \in InstanceIds : guard.nOps < MaxLockOps => ENABLED AcquireOp(k))
    /\ [](\A k \in InstanceIds : guard.inst[k].file_handle # None <=> guard.os_lock = k)
    /\ [][ \A k \in InstanceIds :
            /\ (guard'.nOps # guard.nOps /\ guard'.last.op = "acquire" /\ guard'.last.k = k)
                 => /\ guard'.last.ret = (OtherHolders(k) = {})
                    /\ guard'.last.ret => guard'.os_lock = k
                    /\ ~guard'.last.ret
                         => /\ guard'.inst[k].file_handle = None
                            /\ guard'.os_lock = guard.os_lock
            /\ (guard'.nOps # guard.nOps /\ guard'.last.op = "release" /\ guard'.last.k = k
                                         /\ guard.inst[k].file_handle = None)
                 => /\ guard'.os_lock = guard.os_lock
                    /\ guard'.inst = guard.inst
       ]_vars

\* object 1 holds the lock; object 2 failed to acquire it and then released
FileLockContractWitness ==
    /\ guard.pc = "filelock"
    /\ guard.nOps >= 3
    /\ guard.os_lock = 1
    /\ guard.last = [op |-> "release", k |-> 2, ret |-> FALSE]
    /\ guard.inst[2].file_handle = None

----------------------------------------------------------------------------
(* RegistryManager (src/registry_manager.py): the map registered_entries,  *)
(* the file registry_entries.json it is saved to, and the keys under       *)
(* HKEY_CURRENT_USER.  A key path is the tuple of its components.          *)

\* calls of the RegistryManager in one run
MaxRegOps == 3

\* the extensions the methods are called with, and those that start with a dot
ExtInputs == { ".png", "png", ".mp3" }
DottedExts == { ".png", ".mp3" }

\* the formats add_context_menu_for_extension is called with for an
\* extension, in the orders the loop over the set may take them
FormatOrders(ext) ==
    IF ext \in {".png", "png"}
    THEN { << "jpg", "png" >>, << "png", "jpg" >> }
    ELSE { << "wav", "ogg" >>, << "ogg", "wav" >> }

\* ext[1:].upper()
Upper(s) ==
    CASE s = "png" -> "PNG"
      [] s = "mp3" -> "MP3"
      [] OTHER     -> s

\* `if not ext.startswith('.'): ext = f'.{ext}'`
WithDot(ext) == IF ext \in DottedExts THEN ext ELSE "." \o ext

\* a dict: a function on the set of its keys
EmptyDict == [e \in {} |-> << >>]
Put(d, k, v) == [e \in DOMAIN d \cup {k} |-> IF e = k THEN v ELSE d[e]]
Del(d, k) == [e \in DOMAIN d \ {k} |-> d[e]]

\* the key paths of add_context_menu_for_extension
ext_key_path(ext) == << "Software", "Classes", "SystemFileAssociations", ext >>
shell_key_path(ext) == Append(ext_key_path(ext), "shell")
menu_key_path(ext) == Append(shell_key_path(ext), "Convert " \o Upper(DropDot(ext)))
subcommands_key_path(ext) ==
    << "Software", "Classes", Upper(DropDot(ext)) \o "ConvertCommands" >>
subcommands_shell_path(ext) == Append(subcommands_key_path(ext), "Shell")
fmt_key_path(ext, fmt) == Append(subcommands_shell_path(ext), "to_" \o fmt)
cmd_key_path(ext, fmt) == Append(fmt_key_path(ext, fmt), "command")

\* the key paths recorded before the loop over the formats
BasePaths(ext) ==
    << ext_key_path(ext), shell_key_path(ext), menu_key_path(ext),
       subcommands_key_path(ext), subcommands_shell_path(ext) >>

\* the formats of the loop that get keys: fmt.lower() != ext[1:].lower()
Effective(ext, order) ==
    SelectSeq(order, LAMBDA fmt : Lower(fmt) # Lower(DropDot(ext)))

\* a key and the keys above it: CreateKeyEx creates the missing ones
RECURSIVE WithParents(_)
WithParents(k) ==
    IF Len(k) <= 2 THEN {} ELSE {k} \cup WithParents(SubSeq(k, 1, Len(k) - 1))

\* RegistryManager.__init__ with no registry_entries.json
RegStart ==
    [ pc                 |-> "registry",
      registered_entries |-> EmptyDict,
      file               |-> EmptyDict,
      keys               |-> {},
      nOps               |-> 0,
      last               |-> [op |-> "none", arg |-> "", ext |-> "", outcome |-> "none",
                             at |-> ""] ]

RegInit ==
    /\ pending_files = EmptyBag
    /\ processing_lock = Free
    /\ batch_timer = 0
    /\ timers = << >>
    /\ caller = [pc |-> "idle", req |-> <<PathTxt, None>>]
    /\ nCalls = 0
    /\ sinceIssue = 0
    /\ sinceAccept = 0
    /\ close = TRUE
    /\ spaced = TRUE
    /\ conv = ConvIdle
    /\ guard = GuardIdle
    /\ reg = RegStart

\* the places where add_context_menu_for_extension can raise, for a loop
\* over n formats; "none" when it returns
FailPoints(n) ==
    { [at |-> a, i |-> 0] :
        a \in {"none", "ext_key", "menu_key", "menu_value", "subcommands_key", "save"} }
    \cup { [at |-> a, i |-> i] : a \in {"fmt_key", "cmd_key"}, i \in 1..n }

\* the exception comes before anything is recorded in registered_entries
Early(p) == p.at \in {"ext_key", "menu_key", "menu_value", "subcommands_key"}

\* the rounds of the loop over the formats that were completed
FmtsDone(p, n) == IF p.at \in {"fmt_key", "cmd_key"} THEN p.i - 1 ELSE n

\* the key paths the first m rounds of the loop record
RECURSIVE FmtPaths(_, _, _)
FmtPaths(ext, eff, m) ==
    IF m = 0 THEN << >>
    ELSE FmtPaths(ext, eff, m - 1)
            \o << fmt_key_path(ext, eff[m]), cmd_key_path(ext, eff[m]) >>

\* what the call appends to registered_entries[ext] before it ends at p
RecordedBy(ext, eff, p) ==
    IF Early(p) THEN << >>
    ELSE BasePaths(ext) \o FmtPaths(ext, eff, FmtsDone(p, Len(eff)))

\* the registry keys the call has created when it ends at p
CreatedBy(ext, eff, p) ==
    CASE p.at = "ext_key"  -> {}
      [] p.at = "menu_key" -> WithParents(ext_key_path(ext))
      [] p.at \in {"menu_value", "subcommands_key"} -> WithParents(menu_key_path(ext))
      [] OTHER ->
           WithParents(menu_key_path(ext)) \cup WithParents(subcommands_key_path(ext))
             \cup UNION { WithParents(cmd_key_path(ext, eff[i])) :
                            i \in 1..FmtsDone(p, Len(eff)) }
             \cup (IF p.at = "cmd_key" THEN WithParents(fmt_key_path(ext, eff[p.i])) ELSE {})

\* add_context_menu_for_extension(ext0, formats, exe_path) that takes the
\* formats in the given order and ends at p
AddContextMenu(r, ext0, order, p) ==
    LET ext == WithDot(ext0)
        eff == Effective(ext, order)
        old == IF ext \in DOMAIN r.registered_entries
               THEN r.registered_entries[ext] ELSE << >>
        entries == IF Early(p) THEN r.registered_entries
                   ELSE Put(r.registered_entries, ext, old \o RecordedBy(ext, eff, p))
    IN  [r EXCEPT !.registered_entries = entries,
                  !.file = IF p.at = "none" THEN entries ELSE @,
                  !.keys = @ \cup CreatedBy(ext, eff, p),
                  !.nOps = @ + 1,
                  !.last = [op |-> "add", arg |-> ext0, ext |-> ext,
                            outcome |-> IF p.at = "none" THEN "returned" ELSE "raised",
                            at |-> p.at]]

AddOp(ext0) ==
    /\ reg.pc = "registry"
    /\ reg.nOps < MaxRegOps
    /\ \E order \in FormatOrders(ext0) :
         \E p \in FailPoints(Len(Effective(WithDot(ext0), order))) :
            reg' = AddContextMenu(reg, ext0, order, p)
    /\ UNCHANGED << schedVars, conv, guard >>

\* key path a is b or lies above b
IsPrefix(a, b) == Len(a) <= Len(b) /\ SubSeq(b, 1, Len(a)) = a

\* the keys that cannot be deleted when the keys of F are refused: those
\* of F and the keys above them
Blocked(keys, F) == { k \in keys : \E f \in F : IsPrefix(k, f) }

\* the keys _delete_key_recursive takes away when called for the paths
DeletedKeys(keys, paths, F) ==
    { k \in keys \ Blocked(keys, F) : \E i \in DOMAIN paths : IsPrefix(paths[i], k) }

\* the sets of keys whose deletion the system may refuse: at most one key
Refusals(keys) == { {} } \cup { {k} : k \in keys }

\* a bug: an OS error of a deletion ends the removal
RefusalPropagates(F) == F # {}

\* `except WindowsError`: an OS error of a deletion is logged, not raised
DeleteRaises(F) == FALSE

\* a dict without the keys outside S
Restrict(d, S) == [e \in DOMAIN d \cap S |-> d[e]]

\* remove_context_menu_for_extension(ext0) when the deletions of F are
\* refused and _save_registry_entries succeeds or raises
RemoveContextMenu(r, ext0, F, save_ok) ==
    LET ext == WithDot(ext0)
        done(outcome) == [op |-> "remove", arg |-> ext0, ext |-> ext, outcome |-> outcome,
                          at |-> ""]
    IN  IF ext \notin DOMAIN r.registered_entries
        THEN [r EXCEPT !.nOps = @ + 1, !.last = done("returned")]
        ELSE IF DeleteRaises(F)
        THEN [r EXCEPT !.nOps = @ + 1, !.last = done("raised")]
        ELSE LET entries == Del(r.registered_entries, ext) IN
             [r EXCEPT !.registered_entries = entries,
                       !.file = IF save_ok THEN entries ELSE @,
                       !.keys = @ \ DeletedKeys(@, r.registered_entries[ext], F),
                       !.nOps = @ + 1,
                       !.last = done(IF save_ok THEN "returned" ELSE "raised")]

RemoveOp(ext0) ==
    /\ reg.pc = "registry"
    /\ reg.nOps < MaxRegOps
    /\ \E F \in Refusals(reg.keys), save_ok \in BOOLEAN :
          reg' = RemoveContextMenu(reg, ext0, F, save_ok)
    /\ UNCHANGED << schedVars, conv, guard >>

\* remove_all_context_menus when the deletions of F are refused: every
\* extension is removed, or the save raises for extension stop after the
\* extensions of before have been removed ("" when no save raises)
RemoveAll(r, F, before, stop) ==
    LET exts == DOMAIN r.registered_entries
        gone == IF stop = "" THEN exts ELSE before \cup {stop}
        saved == IF stop = "" THEN exts ELSE before
        done(outcome) == [op |-> "remove_all", arg |-> "", ext |-> "", outcome |-> outcome,
                          at |-> ""]
    IN  IF exts # {} /\ DeleteRaises(F)
        THEN [r EXCEPT !.nOps = @ + 1, !.last = done("raised")]
        ELSE [r EXCEPT !.registered_entries = Restrict(@, exts \ gone),
                       !.file = IF saved = {} THEN @
                                ELSE Restrict(r.registered_entries, exts \ saved),
                       !.keys = @ \ UNION { DeletedKeys(r.keys, r.registered_entries[e], F) :
                                              e \in gone },
                       !.nOps = @ + 1,
                       !.last = done(IF stop = "" THEN "returned" ELSE "raised")]

RemoveAllOp ==
    /\ reg.pc = "registry"
    /\ reg.nOps < MaxRegOps
    /\ \E F \in Refusals(reg.keys) :
         \E stop \in {""} \cup DOMAIN reg.registered_entries :
            \E before \in SUBSET (DOMAIN reg.registered_entries \ {stop}) :
               /\ stop = "" => before = {}
               /\ reg' = RemoveAll(reg, F, before, stop)
    /\ UNCHANGED << schedVars, conv, guard >>

\* get_registered_extensions
RegisteredExtensions(r) == DOMAIN r.registered_entries

RegNext ==
    \/ \E ext \in ExtInputs : AddOp(ext)
    \/ \E ext \in ExtInputs : RemoveOp(ext)
    \/ RemoveAllOp

RegSpec == RegInit /\ [][RegNext]_vars

RegTypeOK ==
    /\ reg.nOps \in 0..MaxRegOps
    /\ DOMAIN reg.registered_entries \subseteq DottedExts
    /\ DOMAIN reg.file \subseteq DottedExts
    /\ reg.last.outcome \in {"none", "returned", "raised"}

----------------------------------------------------------------------------
(* Properties of the RegistryManager *)

\* the step is a call of method op that ended with outcome
RegCall(op, outcome) ==
    /\ reg'.nOps # reg.nOps
    /\ reg'.last.op = op
    /\ reg'.last.outcome = outcome

\* C32: when remove_context_menu_for_extension returns for a registered
\* extension, given with or without its dot, the extension is no longer
\* registered, the other extensions are as before and the file equals the
\* map, also when the system refused to delete keys: only the save can
\* make the removal raise, and then the extension is gone from the map.
\* Removing an extension that is not registered changes nothing.  When
\* remove_all_context_menus returns no extension is registered.
RemovalBookkeeping ==
    [][ LET ext == reg'.last.ext
            before == reg.registered_entries
            after == reg'.registered_entries
        IN  /\ (RegCall("remove", "returned") /\ ext \in DOMAIN before)
                 => /\ RegisteredExtensions(reg') = RegisteredExtensions(reg) \ {ext}
                    /\ \A e \in DOMAIN after : after[e] = before[e]
                    /\ reg'.file = after
            /\ (RegCall("remove", "raised") /\ ext \in DOMAIN before)
                 => ext \notin RegisteredExtensions(reg')
            /\ (reg'.nOps # reg.nOps /\ reg'.last.op = "remove" /\ ext \notin DOMAIN before)
                 => /\ reg'.last.outcome = "returned"
                    /\ after = before
                    /\ reg'.file = reg.file
                    /\ reg'.keys = reg.keys
            /\ RegCall("remove_all", "returned")
                 => /\ RegisteredExtensions(reg') = {}
                    /\ before # EmptyDict => reg'.file = after
      ]_vars

\* .png and .mp3 were registered; the removal of png, given without its
\* dot, has returned although a key of .png could not be deleted
RemovalBookkeepingWitness ==
    /\ reg.pc = "registry"
    /\ reg.last = [op |-> "remove", arg |-> "png", ext |-> ".png", outcome |-> "returned",
                   at |-> ""]
    /\ RegisteredExtensions(reg) = {".mp3"}
    /\ reg.file = reg.registered_entries
    /\ ext_key_path(".png") \in reg.keys

\* C33: when add_context_menu_for_extension raises because a key could
\* not be created or a value not be written, registered_entries is as it
\* was before the call, and it still equals the file if it did before.
FailedAddLeavesMap ==
    [][ (RegCall("add", "raised") /\ reg'.last.at # "save")
           => /\ reg'.registered_entries = reg.registered_entries
              /\ reg.file = reg.registered_entries
                    => reg'.file = reg'.registered_entries
      ]_vars

\* the sequence holds no element twice
NoRepeats(seq) == \A i, j \in DOMAIN seq : seq[i] = seq[j] => i = j

\* C34: a call of add_context_menu_for_extension that returns right after
\* a call for the same extension and formats that returned leaves
\* registered_entries[ext] and the file as they were, and no key path is
\* ever recorded twice for an extension.
AddIdempotent ==
    /\ [](reg.pc = "registry"
             => \A e \in RegisteredExtensions(reg) : NoRepeats(reg.registered_entries[e]))
    /\ [][ (/\ RegCall("add", "returned")
            /\ reg.last.op = "add"
            /\ reg.last.outcome = "returned"
            /\ reg.last.ext = reg'.last.ext)
              => /\ Len(reg'.registered_entries[reg'.last.ext])
                      = Len(reg.registered_entries[reg'.last.ext])
                 /\ Len(reg'.file[reg'.last.ext]) = Len(reg.file[reg'.last.ext])
         ]_vars

====
